---- MODULE Spec2Model ----
(***************************************************************************)
(* Document operation descriptors of the ArangoDB driver                   *)
(* (src/document/methods.rs): the eight descriptors GetDocument,           *)
(* GetDocumentHeader, InsertDocument, InsertDocumentReturnNew,             *)
(* InsertDocuments, InsertDocumentsReturnNew, ReplaceDocument and          *)
(* UpdateDocument, their consuming with_* modifiers, their getters and     *)
(* their Method / Prepare implementations.                                 *)
(*                                                                         *)
(* A behaviour is one builder chain: a descriptor is constructed (Init),   *)
(* refined by with_* calls, and read by the dispatcher through the         *)
(* Prepare methods and the RETURN_TYPE constant (Spec).  SpecClone is the   *)
(* same descriptor cloned (derive(Clone)) and its copies modified and read *)
(* by their holders in any interleaving.                                   *)
(***************************************************************************)
EXTENDS Naturals, Sequences, FiniteSets, TLC

VARIABLES d, ctor, last, ncalls, ev, copies

vars == <<d, ctor, last, ncalls, ev, copies>>

\* ---------------------------------------------------------------- bounds
\* Longest builder chain explored (number of with_* calls on one descriptor).
MaxCalls == 3
\* Longest batch handed to InsertDocuments::new / InsertDocumentsReturnNew::new.
MaxDocs == 2

\* ------------------------------------------------------- Option<T> values
\* Option<T>: None is the empty tuple, Some(v) the one-element tuple.
None == <<>>
Some(v) == <<v>>
IsSome(o) == o # None
Unwrap(o) == o[1]

\* A modifier argument `x: impl Into<Option<T>>`: either a plain T ("T") or
\* an Option<T>.
PlainArg(v) == [plain |-> v]
OptionArg(o) == [option |-> o]
IsPlain(a) == "plain" \in DOMAIN a

\* `x.into()` for Into<Option<T>>: a plain value becomes Some(value), an
\* Option stays as it is.
Into(a) == IF IsPlain(a) THEN Some(a.plain) ELSE a.option

\* ------------------------------------------------ protocol literal names
PATH_API_DOCUMENT == "/_api/document"
FIELD_CODE == "code"
HEADER_IF_MATCH == "If-Match"
HEADER_IF_NON_MATCH == "If-None-Match"
PARAM_IGNORE_REVISIONS == "ignoreRevs"
PARAM_KEEP_NULL == "keepNull"
PARAM_MERGE_OBJECTS == "mergeObjects"
PARAM_RETURN_NEW == "returnNew"
PARAM_RETURN_OLD == "returnOld"
PARAM_WAIT_FOR_SYNC == "waitForSync"

\* ------------------------------------------------------------ Parameters
\* Parameters: the ordered mapping handed to the dispatcher, a sequence of
\* <<name, value>> entries in insertion order.
Parameters_new == <<>>
Parameters_empty == <<>>
Parameters_insert(params, name, value) == Append(params, <<name, value>>)

\* `if let Some(x) = self.field { params.insert(NAME, x); }`
InsertIfSome(params, name, field) ==
    IF IsSome(field) THEN Parameters_insert(params, name, Unwrap(field)) ELSE params

\* ------------------------------------------------------------ value types
\* DocumentId { collection_name, document_key } and its canonical
\* "collection/key" rendering.
DocumentId_new(collection_name, document_key) ==
    [collection_name |-> collection_name, document_key |-> document_key]
DocumentId_to_string(id) == id.collection_name \o "/" \o id.document_key

\* NewDocument { key: Option, content } and DocumentUpdate { content }.
NewDocument(key, content) == [key |-> key, content |-> content]
DocumentUpdate(content) == [content |-> content]

\* Vec::from_iter(documents.into_iter()): pushes the items in iteration order.
RECURSIVE Vec_from_iter(_)
Vec_from_iter(it) ==
    IF it = <<>> THEN <<>> ELSE <<Head(it)>> \o Vec_from_iter(Tail(it))

\* ------------------------------------------------- inputs of the builders
DocumentIds == {DocumentId_new("users", "42"), DocumentId_new("posts", "7")}
CollectionNames == {"users", "posts"}
Revisions == {"rev1", "rev2"}
NewDocuments == {NewDocument(None, "doc1"), NewDocument(Some("k2"), "doc2")}
DocumentUpdates == {DocumentUpdate("patch1"), DocumentUpdate("patch2")}
DocumentBatches == UNION {[1..n -> NewDocuments] : n \in 0..MaxDocs}

OptBool == {None, Some(TRUE), Some(FALSE)}
OptString == {None} \cup {Some(r) : r \in Revisions}
BoolArgs == {PlainArg(b) : b \in BOOLEAN} \cup {OptionArg(o) : o \in OptBool}
StringArgs == {PlainArg(r) : r \in Revisions} \cup {OptionArg(o) : o \in OptString}

\* ============================================================ GetDocument
GetDocument_new(id) ==
    [type |-> "GetDocument", id |-> id, if_match |-> None, if_non_match |-> None]

\* Variant: a revision already set is kept (get_or_insert instead of assignment).
GetDocument_with_if_match_KeepFirst(self, if_match) ==
    IF IsSome(self.if_match) THEN self ELSE [self EXCEPT !.if_match = Into(if_match)]

GetDocument_with_if_match(self, if_match) ==
    [self EXCEPT !.if_match = Into(if_match)]

GetDocument_with_if_non_match(self, if_non_match) ==
    [self EXCEPT !.if_non_match = Into(if_non_match)]

GetDocument_id(self) == self.id
GetDocument_if_match(self) == self.if_match
GetDocument_if_non_match(self) == self.if_non_match

GetDocument_RETURN_TYPE == [result_field |-> None, code_field |-> Some(FIELD_CODE)]

GetDocument_operation(self) == "Read"

GetDocument_path(self) ==
    PATH_API_DOCUMENT \o "/" \o DocumentId_to_string(self.id)

GetDocument_parameters(self) == Parameters_empty

GetDocument_header(self) ==
    LET header0 == Parameters_new
        header1 == InsertIfSome(header0, HEADER_IF_MATCH, self.if_match)
        header2 == InsertIfSome(header1, HEADER_IF_NON_MATCH, self.if_non_match)
    IN  header2

GetDocument_content(self) == None

\* ====================================================== GetDocumentHeader
GetDocumentHeader_new(id) ==
    [type |-> "GetDocumentHeader", id |-> id, if_match |-> None, if_non_match |-> None]

GetDocumentHeader_with_if_match(self, if_match) ==
    [self EXCEPT !.if_match = Into(if_match)]

GetDocumentHeader_with_if_non_match(self, if_non_match) ==
    [self EXCEPT !.if_non_match = Into(if_non_match)]

GetDocumentHeader_id(self) == self.id
GetDocumentHeader_if_match(self) == self.if_match
GetDocumentHeader_if_non_match(self) == self.if_non_match

GetDocumentHeader_RETURN_TYPE == [result_field |-> None, code_field |-> Some(FIELD_CODE)]

\* Variant: the operation kind of GetDocument.
GetDocumentHeader_operation_AsRead(self) == "Read"
GetDocumentHeader_operation(self) == "ReadHeader"

GetDocumentHeader_path(self) ==
    PATH_API_DOCUMENT \o "/" \o DocumentId_to_string(self.id)

GetDocumentHeader_parameters(self) == Parameters_empty

\* Variant: If-None-Match only when If-Match is unset (else-if chain).
GetDocumentHeader_header_Exclusive(self) ==
    LET header0 == Parameters_new
    IN  IF IsSome(self.if_match)
        THEN Parameters_insert(header0, HEADER_IF_MATCH, Unwrap(self.if_match))
        ELSE InsertIfSome(header0, HEADER_IF_NON_MATCH, self.if_non_match)

GetDocumentHeader_header(self) ==
    LET header0 == Parameters_new
        header1 == InsertIfSome(header0, HEADER_IF_MATCH, self.if_match)
        header2 == InsertIfSome(header1, HEADER_IF_NON_MATCH, self.if_non_match)
    IN  header2

GetDocumentHeader_content(self) == None

\* ======================================================== InsertDocument
InsertDocument_new(collection_name, document) ==
    [type |-> "InsertDocument", collection_name |-> collection_name,
     document |-> document, force_wait_for_sync |-> None]

InsertDocument_collection_name(self) == self.collection_name
InsertDocument_document(self) == self.document

InsertDocument_with_force_wait_for_sync(self, force_wait_for_sync) ==
    [self EXCEPT !.force_wait_for_sync = Into(force_wait_for_sync)]

InsertDocument_is_force_wait_for_sync(self) == self.force_wait_for_sync

InsertDocument_RETURN_TYPE == [result_field |-> None, code_field |-> Some(FIELD_CODE)]

InsertDocument_operation(self) == "Create"

InsertDocument_path(self) == PATH_API_DOCUMENT \o "/" \o self.collection_name

InsertDocument_parameters(self) ==
    LET params0 == Parameters_new
        params1 == Parameters_insert(params0, PARAM_RETURN_NEW, FALSE)
        params2 == InsertIfSome(params1, PARAM_WAIT_FOR_SYNC, self.force_wait_for_sync)
    IN  params2

InsertDocument_header(self) == Parameters_empty

InsertDocument_content(self) == Some(self.document)

\* =============================================== InsertDocumentReturnNew
InsertDocumentReturnNew_new(collection_name, document) ==
    [type |-> "InsertDocumentReturnNew", collection_name |-> collection_name,
     document |-> document, force_wait_for_sync |-> None]

InsertDocumentReturnNew_collection_name(self) == self.collection_name
InsertDocumentReturnNew_document(self) == self.document

InsertDocumentReturnNew_with_force_wait_for_sync(self, force_wait_for_sync) ==
    [self EXCEPT !.force_wait_for_sync = Into(force_wait_for_sync)]

InsertDocumentReturnNew_is_force_wait_for_sync(self) == self.force_wait_for_sync

InsertDocumentReturnNew_RETURN_TYPE == [result_field |-> None, code_field |-> Some(FIELD_CODE)]

InsertDocumentReturnNew_operation(self) == "Create"

InsertDocumentReturnNew_path(self) == PATH_API_DOCUMENT \o "/" \o self.collection_name

InsertDocumentReturnNew_parameters(self) ==
    LET params0 == Parameters_new
        params1 == Parameters_insert(params0, PARAM_RETURN_NEW, TRUE)
        params2 == InsertIfSome(params1, PARAM_WAIT_FOR_SYNC, self.force_wait_for_sync)
    IN  params2

InsertDocumentReturnNew_header(self) == Parameters_empty

InsertDocumentReturnNew_content(self) == Some(self.document)

\* ======================================================= InsertDocuments
\* Variant: the batch is collected back to front.
InsertDocuments_new_Reversed(collection_name, documents) ==
    [type |-> "InsertDocuments", collection_name |-> collection_name,
     documents |-> [i \in 1..Len(documents) |-> documents[Len(documents) + 1 - i]],
     force_wait_for_sync |-> None]

InsertDocuments_new(collection_name, documents) ==
    [type |-> "InsertDocuments", collection_name |-> collection_name,
     documents |-> Vec_from_iter(documents), force_wait_for_sync |-> None]

InsertDocuments_collection_name(self) == self.collection_name
InsertDocuments_documents(self) == self.documents

InsertDocuments_with_force_wait_for_sync(self, force_wait_for_sync) ==
    [self EXCEPT !.force_wait_for_sync = Into(force_wait_for_sync)]

InsertDocuments_is_force_wait_for_sync(self) == self.force_wait_for_sync

InsertDocuments_RETURN_TYPE == [result_field |-> None, code_field |-> Some(FIELD_CODE)]

InsertDocuments_operation(self) == "Create"

InsertDocuments_path(self) == PATH_API_DOCUMENT \o "/" \o self.collection_name

InsertDocuments_parameters(self) ==
    LET params0 == Parameters_new
        params1 == Parameters_insert(params0, PARAM_RETURN_NEW, FALSE)
        params2 == InsertIfSome(params1, PARAM_WAIT_FOR_SYNC, self.force_wait_for_sync)
    IN  params2

InsertDocuments_header(self) == Parameters_empty

InsertDocuments_content(self) == Some(self.documents)

\* ============================================== InsertDocumentsReturnNew
InsertDocumentsReturnNew_new(collection_name, documents) ==
    [type |-> "InsertDocumentsReturnNew", collection_name |-> collection_name,
     documents |-> Vec_from_iter(documents), force_wait_for_sync |-> None]

InsertDocumentsReturnNew_collection_name(self) == self.collection_name
InsertDocumentsReturnNew_documents(self) == self.documents

InsertDocumentsReturnNew_with_force_wait_for_sync(self, force_wait_for_sync) ==
    [self EXCEPT !.force_wait_for_sync = Into(force_wait_for_sync)]

InsertDocumentsReturnNew_is_force_wait_for_sync(self) == self.force_wait_for_sync

\* Variant: the result is looked up under a nested "result" field.
InsertDocumentsReturnNew_RETURN_TYPE_Nested ==
    [result_field |-> Some("result"), code_field |-> Some(FIELD_CODE)]
InsertDocumentsReturnNew_RETURN_TYPE == [result_field |-> None, code_field |-> Some(FIELD_CODE)]

InsertDocumentsReturnNew_operation(self) == "Create"

InsertDocumentsReturnNew_path(self) == PATH_API_DOCUMENT \o "/" \o self.collection_name

\* Variant: the returnNew literal of the plain InsertDocuments.
InsertDocumentsReturnNew_parameters_Plain(self) ==
    LET params0 == Parameters_new
        params1 == Parameters_insert(params0, PARAM_RETURN_NEW, FALSE)
        params2 == InsertIfSome(params1, PARAM_WAIT_FOR_SYNC, self.force_wait_for_sync)
    IN  params2

InsertDocumentsReturnNew_parameters(self) ==
    LET params0 == Parameters_new
        params1 == Parameters_insert(params0, PARAM_RETURN_NEW, TRUE)
        params2 == InsertIfSome(params1, PARAM_WAIT_FOR_SYNC, self.force_wait_for_sync)
    IN  params2

InsertDocumentsReturnNew_header(self) == Parameters_empty

InsertDocumentsReturnNew_content(self) == Some(self.documents)

\* ======================================================= ReplaceDocument
ReplaceDocument_new(document_id, new_document) ==
    [type |-> "ReplaceDocument", document_id |-> document_id, new_document |-> new_document,
     force_wait_for_sync |-> None,
     ignore_revisions |-> None,
     if_match |-> None,
     return_old |-> None,
     return_new |-> None]

ReplaceDocument_with_force_wait_for_sync(self, force_wait_for_sync) ==
    [self EXCEPT !.force_wait_for_sync = Into(force_wait_for_sync)]

ReplaceDocument_with_ignore_revisions(self, ignore_revisions) ==
    [self EXCEPT !.ignore_revisions = Into(ignore_revisions)]

ReplaceDocument_with_if_match(self, if_match) ==
    [self EXCEPT !.if_match = Into(if_match)]

\* Variant: with_return_old assigns return_new as well.
ReplaceDocument_with_return_old_Both(self, return_old) ==
    [self EXCEPT !.return_old = Into(return_old), !.return_new = Into(return_old)]

ReplaceDocument_with_return_old(self, return_old) ==
    [self EXCEPT !.return_old = Into(return_old)]

ReplaceDocument_with_return_new(self, return_new) ==
    [self EXCEPT !.return_new = Into(return_new)]

ReplaceDocument_force_wait_for_sync(self) == self.force_wait_for_sync
ReplaceDocument_ignore_revisions(self) == self.ignore_revisions
ReplaceDocument_if_match(self) == self.if_match
ReplaceDocument_return_old(self) == self.return_old
ReplaceDocument_return_new(self) == self.return_new

ReplaceDocument_RETURN_TYPE == [result_field |-> None, code_field |-> Some(FIELD_CODE)]

ReplaceDocument_operation(self) == "Replace"

\* Variant: the path is built from the document key alone.
ReplaceDocument_path_KeyOnly(self) ==
    PATH_API_DOCUMENT \o "/" \o self.document_id.document_key

ReplaceDocument_path(self) ==
    PATH_API_DOCUMENT \o "/" \o DocumentId_to_string(self.document_id)

ReplaceDocument_parameters(self) ==
    LET params0 == Parameters_new
        params1 == InsertIfSome(params0, PARAM_WAIT_FOR_SYNC, self.force_wait_for_sync)
        params2 == InsertIfSome(params1, PARAM_IGNORE_REVISIONS, self.ignore_revisions)
        params3 == InsertIfSome(params2, PARAM_RETURN_OLD, self.return_old)
        params4 == InsertIfSome(params3, PARAM_RETURN_NEW, self.return_new)
    IN  params4

ReplaceDocument_header(self) ==
    LET header0 == Parameters_new
        header1 == InsertIfSome(header0, HEADER_IF_MATCH, self.if_match)
    IN  header1

ReplaceDocument_content(self) == Some(self.new_document)

\* ======================================================== UpdateDocument
UpdateDocument_new(document_id, update) ==
    [type |-> "UpdateDocument", document_id |-> document_id, update |-> update,
     force_wait_for_sync |-> None,
     ignore_revisions |-> None,
     if_match |-> None,
     keep_none |-> None,
     merge_objects |-> None,
     return_old |-> None,
     return_new |-> None]

UpdateDocument_with_force_wait_for_sync(self, force_wait_for_sync) ==
    [self EXCEPT !.force_wait_for_sync = Into(force_wait_for_sync)]

UpdateDocument_with_ignore_revisions(self, ignore_revisions) ==
    [self EXCEPT !.ignore_revisions = Into(ignore_revisions)]

UpdateDocument_with_if_match(self, if_match) ==
    [self EXCEPT !.if_match = Into(if_match)]

UpdateDocument_with_keep_none(self, keep_none) ==
    [self EXCEPT !.keep_none = Into(keep_none)]

UpdateDocument_with_merge_objects(self, merge_objects) ==
    [self EXCEPT !.merge_objects = Into(merge_objects)]

UpdateDocument_with_return_old(self, return_old) ==
    [self EXCEPT !.return_old = Into(return_old)]

\* Variant: asking for the new content drops the request for the old one.
UpdateDocument_with_return_new_ClearsOld(self, return_new) ==
    [self EXCEPT !.return_new = Into(return_new), !.return_old = None]

UpdateDocument_with_return_new(self, return_new) ==
    [self EXCEPT !.return_new = Into(return_new)]

UpdateDocument_force_wait_for_sync(self) == self.force_wait_for_sync
UpdateDocument_ignore_revisions(self) == self.ignore_revisions
UpdateDocument_if_match(self) == self.if_match
UpdateDocument_keep_none(self) == self.keep_none
UpdateDocument_merge_objects(self) == self.merge_objects
UpdateDocument_return_old(self) == self.return_old
UpdateDocument_return_new(self) == self.return_new

UpdateDocument_RETURN_TYPE == [result_field |-> None, code_field |-> Some(FIELD_CODE)]

UpdateDocument_operation(self) == "Modify"

UpdateDocument_path(self) ==
    PATH_API_DOCUMENT \o "/" \o DocumentId_to_string(self.document_id)

\* Variant: keep_none read with unwrap_or(false), so keepNull is always sent.
UpdateDocument_parameters_KeepNullDefault(self) ==
    LET params0 == Parameters_new
        params1 == InsertIfSome(params0, PARAM_WAIT_FOR_SYNC, self.force_wait_for_sync)
        params2 == InsertIfSome(params1, PARAM_IGNORE_REVISIONS, self.ignore_revisions)
        params3 == Parameters_insert(params2, PARAM_KEEP_NULL,
                       IF IsSome(self.keep_none) THEN Unwrap(self.keep_none) ELSE FALSE)
        params4 == InsertIfSome(params3, PARAM_MERGE_OBJECTS, self.merge_objects)
        params5 == InsertIfSome(params4, PARAM_RETURN_OLD, self.return_old)
        params6 == InsertIfSome(params5, PARAM_RETURN_NEW, self.return_new)
    IN  params6

UpdateDocument_parameters(self) ==
    LET params0 == Parameters_new
        params1 == InsertIfSome(params0, PARAM_WAIT_FOR_SYNC, self.force_wait_for_sync)
        params2 == InsertIfSome(params1, PARAM_IGNORE_REVISIONS, self.ignore_revisions)
        params3 == InsertIfSome(params2, PARAM_KEEP_NULL, self.keep_none)
        params4 == InsertIfSome(params3, PARAM_MERGE_OBJECTS, self.merge_objects)
        params5 == InsertIfSome(params4, PARAM_RETURN_OLD, self.return_old)
        params6 == InsertIfSome(params5, PARAM_RETURN_NEW, self.return_new)
    IN  params6

UpdateDocument_header(self) ==
    LET header0 == Parameters_new
        header1 == InsertIfSome(header0, HEADER_IF_MATCH, self.if_match)
    IN  header1

UpdateDocument_content(self) == Some(self.update)

\* ============================================= Method / Prepare dispatch
\* The dispatcher is generic over `M: Method + Prepare`; each call resolves
\* to the implementation of the descriptor's own type.
Method_RETURN_TYPE(self) ==
    CASE self.type = "GetDocument" -> GetDocument_RETURN_TYPE
      [] self.type = "GetDocumentHeader" -> GetDocumentHeader_RETURN_TYPE
      [] self.type = "InsertDocument" -> InsertDocument_RETURN_TYPE
      [] self.type = "InsertDocumentReturnNew" -> InsertDocumentReturnNew_RETURN_TYPE
      [] self.type = "InsertDocuments" -> InsertDocuments_RETURN_TYPE
      [] self.type = "InsertDocumentsReturnNew" -> InsertDocumentsReturnNew_RETURN_TYPE
      [] self.type = "ReplaceDocument" -> ReplaceDocument_RETURN_TYPE
      [] self.type = "UpdateDocument" -> UpdateDocument_RETURN_TYPE

Prepare_operation(self) ==
    CASE self.type = "GetDocument" -> GetDocument_operation(self)
      [] self.type = "GetDocumentHeader" -> GetDocumentHeader_operation(self)
      [] self.type = "InsertDocument" -> InsertDocument_operation(self)
      [] self.type = "InsertDocumentReturnNew" -> InsertDocumentReturnNew_operation(self)
      [] self.type = "InsertDocuments" -> InsertDocuments_operation(self)
      [] self.type = "InsertDocumentsReturnNew" -> InsertDocumentsReturnNew_operation(self)
      [] self.type = "ReplaceDocument" -> ReplaceDocument_operation(self)
      [] self.type = "UpdateDocument" -> UpdateDocument_operation(self)

Prepare_path(self) ==
    CASE self.type = "GetDocument" -> GetDocument_path(self)
      [] self.type = "GetDocumentHeader" -> GetDocumentHeader_path(self)
      [] self.type = "InsertDocument" -> InsertDocument_path(self)
      [] self.type = "InsertDocumentReturnNew" -> InsertDocumentReturnNew_path(self)
      [] self.type = "InsertDocuments" -> InsertDocuments_path(self)
      [] self.type = "InsertDocumentsReturnNew" -> InsertDocumentsReturnNew_path(self)
      [] self.type = "ReplaceDocument" -> ReplaceDocument_path(self)
      [] self.type = "UpdateDocument" -> UpdateDocument_path(self)

Prepare_parameters(self) ==
    CASE self.type = "GetDocument" -> GetDocument_parameters(self)
      [] self.type = "GetDocumentHeader" -> GetDocumentHeader_parameters(self)
      [] self.type = "InsertDocument" -> InsertDocument_parameters(self)
      [] self.type = "InsertDocumentReturnNew" -> InsertDocumentReturnNew_parameters(self)
      [] self.type = "InsertDocuments" -> InsertDocuments_parameters(self)
      [] self.type = "InsertDocumentsReturnNew" -> InsertDocumentsReturnNew_parameters(self)
      [] self.type = "ReplaceDocument" -> ReplaceDocument_parameters(self)
      [] self.type = "UpdateDocument" -> UpdateDocument_parameters(self)

Prepare_header(self) ==
    CASE self.type = "GetDocument" -> GetDocument_header(self)
      [] self.type = "GetDocumentHeader" -> GetDocumentHeader_header(self)
      [] self.type = "InsertDocument" -> InsertDocument_header(self)
      [] self.type = "InsertDocumentReturnNew" -> InsertDocumentReturnNew_header(self)
      [] self.type = "InsertDocuments" -> InsertDocuments_header(self)
      [] self.type = "InsertDocumentsReturnNew" -> InsertDocumentsReturnNew_header(self)
      [] self.type = "ReplaceDocument" -> ReplaceDocument_header(self)
      [] self.type = "UpdateDocument" -> UpdateDocument_header(self)

Prepare_content(self) ==
    CASE self.type = "GetDocument" -> GetDocument_content(self)
      [] self.type = "GetDocumentHeader" -> GetDocumentHeader_content(self)
      [] self.type = "InsertDocument" -> InsertDocument_content(self)
      [] self.type = "InsertDocumentReturnNew" -> InsertDocumentReturnNew_content(self)
      [] self.type = "InsertDocuments" -> InsertDocuments_content(self)
      [] self.type = "InsertDocumentsReturnNew" -> InsertDocumentsReturnNew_content(self)
      [] self.type = "ReplaceDocument" -> ReplaceDocument_content(self)
      [] self.type = "UpdateDocument" -> UpdateDocument_content(self)

\* ================================================================ state
\* d      the descriptor owned by the builder chain
\* ctor   the arguments its constructor was called with
\* last   per modifier: None before any call, Some(argument) of the most
\*        recent with_<modifier> call (the argument as an Option)
\* ncalls number of with_* calls made so far
\* ev     the most recent event: the construction, a with_* call with its
\*        argument, or a dispatcher read with the value it returned, and
\*        whether it repeats the event before it
\* copies the descriptors held by the holders of SpecClone (empty under Spec)
ModifierNames ==
    {"force_wait_for_sync", "ignore_revisions", "if_match", "if_non_match",
     "keep_none", "merge_objects", "return_old", "return_new"}

\* The Option a caller means by a modifier argument.
ArgValue(a) == IF IsPlain(a) THEN <<a.plain>> ELSE a.option

Fresh(type) ==
    /\ last = [m \in ModifierNames |-> None]
    /\ ncalls = 0
    /\ ev = [kind |-> "new", name |-> type, val |-> None, rep |-> FALSE]

\* A descriptor as its constructor leaves it.
Constructed ==
    \/ \E id \in DocumentIds :
          /\ d = GetDocument_new(id)
          /\ ctor = [type |-> "GetDocument", id |-> id]
          /\ Fresh("GetDocument")
    \/ \E id \in DocumentIds :
          /\ d = GetDocumentHeader_new(id)
          /\ ctor = [type |-> "GetDocumentHeader", id |-> id]
          /\ Fresh("GetDocumentHeader")
    \/ \E name \in CollectionNames, doc \in NewDocuments :
          /\ d = InsertDocument_new(name, doc)
          /\ ctor = [type |-> "InsertDocument", collection_name |-> name, document |-> doc]
          /\ Fresh("InsertDocument")
    \/ \E name \in CollectionNames, doc \in NewDocuments :
          /\ d = InsertDocumentReturnNew_new(name, doc)
          /\ ctor = [type |-> "InsertDocumentReturnNew", collection_name |-> name, document |-> doc]
          /\ Fresh("InsertDocumentReturnNew")
    \/ \E name \in CollectionNames, docs \in DocumentBatches :
          /\ d = InsertDocuments_new(name, docs)
          /\ ctor = [type |-> "InsertDocuments", collection_name |-> name, documents |-> docs]
          /\ Fresh("InsertDocuments")
    \/ \E name \in CollectionNames, docs \in DocumentBatches :
          /\ d = InsertDocumentsReturnNew_new(name, docs)
          /\ ctor = [type |-> "InsertDocumentsReturnNew", collection_name |-> name, documents |-> docs]
          /\ Fresh("InsertDocumentsReturnNew")
    \/ \E id \in DocumentIds, upd \in DocumentUpdates :
          /\ d = ReplaceDocument_new(id, upd)
          /\ ctor = [type |-> "ReplaceDocument", document_id |-> id, new_document |-> upd]
          /\ Fresh("ReplaceDocument")
    \/ \E id \in DocumentIds, upd \in DocumentUpdates :
          /\ d = UpdateDocument_new(id, upd)
          /\ ctor = [type |-> "UpdateDocument", document_id |-> id, update |-> upd]
          /\ Fresh("UpdateDocument")

Init ==
    /\ Constructed
    /\ copies = <<>>

\* Bookkeeping of a with_<m>(a) call; `rep` tells that it repeats the call
\* made just before it (same modifier, same argument).
Called(m, a) ==
    /\ last' = [last EXCEPT ![m] = Some(ArgValue(a))]
    /\ ncalls' = ncalls + 1
    /\ ev' = [kind |-> "with", name |-> m, val |-> ArgValue(a),
              rep |-> (ev.kind = "with" /\ ev.name = m /\ ev.val = ArgValue(a))]
    /\ UNCHANGED <<ctor, copies>>

\* Bookkeeping of a dispatcher read that returned `result`; `rep` tells that
\* the same read was made just before it.
Returned(name, result) ==
    /\ ev' = [kind |-> "read", name |-> name, val |-> result,
              rep |-> (ev.kind = "read" /\ ev.name = name)]
    /\ UNCHANGED <<ctor, last, ncalls, copies>>

\* ------------------------------------------------ the builder's with_* calls
Call_GetDocument_with_if_match ==
    /\ d.type = "GetDocument"
    /\ ncalls < MaxCalls
    /\ \E a \in StringArgs :
          /\ d' = GetDocument_with_if_match(d, a)
          /\ Called("if_match", a)

Call_GetDocument_with_if_non_match ==
    /\ d.type = "GetDocument"
    /\ ncalls < MaxCalls
    /\ \E a \in StringArgs :
          /\ d' = GetDocument_with_if_non_match(d, a)
          /\ Called("if_non_match", a)

Call_GetDocumentHeader_with_if_match ==
    /\ d.type = "GetDocumentHeader"
    /\ ncalls < MaxCalls
    /\ \E a \in StringArgs :
          /\ d' = GetDocumentHeader_with_if_match(d, a)
          /\ Called("if_match", a)

Call_GetDocumentHeader_with_if_non_match ==
    /\ d.type = "GetDocumentHeader"
    /\ ncalls < MaxCalls
    /\ \E a \in StringArgs :
          /\ d' = GetDocumentHeader_with_if_non_match(d, a)
          /\ Called("if_non_match", a)

Call_InsertDocument_with_force_wait_for_sync ==
    /\ d.type = "InsertDocument"
    /\ ncalls < MaxCalls
    /\ \E a \in BoolArgs :
          /\ d' = InsertDocument_with_force_wait_for_sync(d, a)
          /\ Called("force_wait_for_sync", a)

Call_InsertDocumentReturnNew_with_force_wait_for_sync ==
    /\ d.type = "InsertDocumentReturnNew"
    /\ ncalls < MaxCalls
    /\ \E a \in BoolArgs :
          /\ d' = InsertDocumentReturnNew_with_force_wait_for_sync(d, a)
          /\ Called("force_wait_for_sync", a)

Call_InsertDocuments_with_force_wait_for_sync ==
    /\ d.type = "InsertDocuments"
    /\ ncalls < MaxCalls
    /\ \E a \in BoolArgs :
          /\ d' = InsertDocuments_with_force_wait_for_sync(d, a)
          /\ Called("force_wait_for_sync", a)

Call_InsertDocumentsReturnNew_with_force_wait_for_sync ==
    /\ d.type = "InsertDocumentsReturnNew"
    /\ ncalls < MaxCalls
    /\ \E a \in BoolArgs :
          /\ d' = InsertDocumentsReturnNew_with_force_wait_for_sync(d, a)
          /\ Called("force_wait_for_sync", a)

Call_ReplaceDocument_with_force_wait_for_sync ==
    /\ d.type = "ReplaceDocument"
    /\ ncalls < MaxCalls
    /\ \E a \in BoolArgs :
          /\ d' = ReplaceDocument_with_force_wait_for_sync(d, a)
          /\ Called("force_wait_for_sync", a)

Call_ReplaceDocument_with_ignore_revisions ==
    /\ d.type = "ReplaceDocument"
    /\ ncalls < MaxCalls
    /\ \E a \in BoolArgs :
          /\ d' = ReplaceDocument_with_ignore_revisions(d, a)
          /\ Called("ignore_revisions", a)

Call_ReplaceDocument_with_if_match ==
    /\ d.type = "ReplaceDocument"
    /\ ncalls < MaxCalls
    /\ \E a \in StringArgs :
          /\ d' = ReplaceDocument_with_if_match(d, a)
          /\ Called("if_match", a)

Call_ReplaceDocument_with_return_old ==
    /\ d.type = "ReplaceDocument"
    /\ ncalls < MaxCalls
    /\ \E a \in BoolArgs :
          /\ d' = ReplaceDocument_with_return_old(d, a)
          /\ Called("return_old", a)

Call_ReplaceDocument_with_return_new ==
    /\ d.type = "ReplaceDocument"
    /\ ncalls < MaxCalls
    /\ \E a \in BoolArgs :
          /\ d' = ReplaceDocument_with_return_new(d, a)
          /\ Called("return_new", a)

Call_UpdateDocument_with_force_wait_for_sync ==
    /\ d.type = "UpdateDocument"
    /\ ncalls < MaxCalls
    /\ \E a \in BoolArgs :
          /\ d' = UpdateDocument_with_force_wait_for_sync(d, a)
          /\ Called("force_wait_for_sync", a)

Call_UpdateDocument_with_ignore_revisions ==
    /\ d.type = "UpdateDocument"
    /\ ncalls < MaxCalls
    /\ \E a \in BoolArgs :
          /\ d' = UpdateDocument_with_ignore_revisions(d, a)
          /\ Called("ignore_revisions", a)

Call_UpdateDocument_with_if_match ==
    /\ d.type = "UpdateDocument"
    /\ ncalls < MaxCalls
    /\ \E a \in StringArgs :
          /\ d' = UpdateDocument_with_if_match(d, a)
          /\ Called("if_match", a)

Call_UpdateDocument_with_keep_none ==
    /\ d.type = "UpdateDocument"
    /\ ncalls < MaxCalls
    /\ \E a \in BoolArgs :
          /\ d' = UpdateDocument_with_keep_none(d, a)
          /\ Called("keep_none", a)

Call_UpdateDocument_with_merge_objects ==
    /\ d.type = "UpdateDocument"
    /\ ncalls < MaxCalls
    /\ \E a \in BoolArgs :
          /\ d' = UpdateDocument_with_merge_objects(d, a)
          /\ Called("merge_objects", a)

Call_UpdateDocument_with_return_old ==
    /\ d.type = "UpdateDocument"
    /\ ncalls < MaxCalls
    /\ \E a \in BoolArgs :
          /\ d' = UpdateDocument_with_return_old(d, a)
          /\ Called("return_old", a)

Call_UpdateDocument_with_return_new ==
    /\ d.type = "UpdateDocument"
    /\ ncalls < MaxCalls
    /\ \E a \in BoolArgs :
          /\ d' = UpdateDocument_with_return_new(d, a)
          /\ Called("return_new", a)

\* ------------------------------------------------- the dispatcher's reads
Dispatch_RETURN_TYPE ==
    /\ d' = d
    /\ Returned("RETURN_TYPE", Method_RETURN_TYPE(d))

Dispatch_operation ==
    /\ d' = d
    /\ Returned("operation", Prepare_operation(d))

Dispatch_path ==
    /\ d' = d
    /\ Returned("path", Prepare_path(d))

Dispatch_parameters ==
    /\ d' = d
    /\ Returned("parameters", Prepare_parameters(d))

\* Variant: header() moves the revision out of the descriptor (Option::take).
Dispatch_header_Taking ==
    /\ d' = IF "if_match" \in DOMAIN d THEN [d EXCEPT !.if_match = None] ELSE d
    /\ Returned("header", Prepare_header(d))

Dispatch_header ==
    /\ d' = d
    /\ Returned("header", Prepare_header(d))

Dispatch_content ==
    /\ d' = d
    /\ Returned("content", Prepare_content(d))

Next ==
    \/ Call_GetDocument_with_if_match
    \/ Call_GetDocument_with_if_non_match
    \/ Call_GetDocumentHeader_with_if_match
    \/ Call_GetDocumentHeader_with_if_non_match
    \/ Call_InsertDocument_with_force_wait_for_sync
    \/ Call_InsertDocumentReturnNew_with_force_wait_for_sync
    \/ Call_InsertDocuments_with_force_wait_for_sync
    \/ Call_InsertDocumentsReturnNew_with_force_wait_for_sync
    \/ Call_ReplaceDocument_with_force_wait_for_sync
    \/ Call_ReplaceDocument_with_ignore_revisions
    \/ Call_ReplaceDocument_with_if_match
    \/ Call_ReplaceDocument_with_return_old
    \/ Call_ReplaceDocument_with_return_new
    \/ Call_UpdateDocument_with_force_wait_for_sync
    \/ Call_UpdateDocument_with_ignore_revisions
    \/ Call_UpdateDocument_with_if_match
    \/ Call_UpdateDocument_with_keep_none
    \/ Call_UpdateDocument_with_merge_objects
    \/ Call_UpdateDocument_with_return_old
    \/ Call_UpdateDocument_with_return_new
    \/ Dispatch_RETURN_TYPE
    \/ Dispatch_operation
    \/ Dispatch_path
    \/ Dispatch_parameters
    \/ Dispatch_header
    \/ Dispatch_content

Spec == Init /\ [][Next]_vars

\* ====================================================== claims: vocabulary
\* The with_* modifiers each descriptor type exposes.
ModifiersOf(type) ==
    CASE type = "GetDocument" -> {"if_match", "if_non_match"}
      [] type = "GetDocumentHeader" -> {"if_match", "if_non_match"}
      [] type = "InsertDocument" -> {"force_wait_for_sync"}
      [] type = "InsertDocumentReturnNew" -> {"force_wait_for_sync"}
      [] type = "InsertDocuments" -> {"force_wait_for_sync"}
      [] type = "InsertDocumentsReturnNew" -> {"force_wait_for_sync"}
      [] type = "ReplaceDocument" -> {"force_wait_for_sync", "ignore_revisions", "if_match", "return_old", "return_new"}
      [] type = "UpdateDocument" -> {"force_wait_for_sync", "ignore_revisions", "if_match", "keep_none", "merge_objects", "return_old", "return_new"}

\* The value the getter of modifier m returns on descriptor self.
Getter(self, m) ==
    CASE self.type = "GetDocument" /\ m = "if_match" -> GetDocument_if_match(self)
      [] self.type = "GetDocument" /\ m = "if_non_match" -> GetDocument_if_non_match(self)
      [] self.type = "GetDocumentHeader" /\ m = "if_match" -> GetDocumentHeader_if_match(self)
      [] self.type = "GetDocumentHeader" /\ m = "if_non_match" -> GetDocumentHeader_if_non_match(self)
      [] self.type = "InsertDocument" /\ m = "force_wait_for_sync" -> InsertDocument_is_force_wait_for_sync(self)
      [] self.type = "InsertDocumentReturnNew" /\ m = "force_wait_for_sync" -> InsertDocumentReturnNew_is_force_wait_for_sync(self)
      [] self.type = "InsertDocuments" /\ m = "force_wait_for_sync" -> InsertDocuments_is_force_wait_for_sync(self)
      [] self.type = "InsertDocumentsReturnNew" /\ m = "force_wait_for_sync" -> InsertDocumentsReturnNew_is_force_wait_for_sync(self)
      [] self.type = "ReplaceDocument" /\ m = "force_wait_for_sync" -> ReplaceDocument_force_wait_for_sync(self)
      [] self.type = "ReplaceDocument" /\ m = "ignore_revisions" -> ReplaceDocument_ignore_revisions(self)
      [] self.type = "ReplaceDocument" /\ m = "if_match" -> ReplaceDocument_if_match(self)
      [] self.type = "ReplaceDocument" /\ m = "return_old" -> ReplaceDocument_return_old(self)
      [] self.type = "ReplaceDocument" /\ m = "return_new" -> ReplaceDocument_return_new(self)
      [] self.type = "UpdateDocument" /\ m = "force_wait_for_sync" -> UpdateDocument_force_wait_for_sync(self)
      [] self.type = "UpdateDocument" /\ m = "ignore_revisions" -> UpdateDocument_ignore_revisions(self)
      [] self.type = "UpdateDocument" /\ m = "if_match" -> UpdateDocument_if_match(self)
      [] self.type = "UpdateDocument" /\ m = "keep_none" -> UpdateDocument_keep_none(self)
      [] self.type = "UpdateDocument" /\ m = "merge_objects" -> UpdateDocument_merge_objects(self)
      [] self.type = "UpdateDocument" /\ m = "return_old" -> UpdateDocument_return_old(self)
      [] self.type = "UpdateDocument" /\ m = "return_new" -> UpdateDocument_return_new(self)

InsertTypes ==
    {"InsertDocument", "InsertDocumentReturnNew", "InsertDocuments", "InsertDocumentsReturnNew"}
IdTypes == {"GetDocument", "GetDocumentHeader", "ReplaceDocument", "UpdateDocument"}

\* The boolean modifiers and the query parameter each one stands for.
BoolModifiers ==
    {"force_wait_for_sync", "ignore_revisions", "keep_none", "merge_objects",
     "return_old", "return_new"}
ParamOf(m) ==
    CASE m = "force_wait_for_sync" -> "waitForSync"
      [] m = "ignore_revisions" -> "ignoreRevs"
      [] m = "keep_none" -> "keepNull"
      [] m = "merge_objects" -> "mergeObjects"
      [] m = "return_old" -> "returnOld"
      [] m = "return_new" -> "returnNew"
      [] m = "if_match" -> "If-Match"
      [] m = "if_non_match" -> "If-None-Match"
BoolParamNames == {ParamOf(m) : m \in BoolModifiers}

\* Reading a produced mapping: the names it holds, the positions and the
\* values of the entries under one name.
Names(p) == {p[i][1] : i \in DOMAIN p}
Positions(p, n) == {i \in DOMAIN p : p[i][1] = n}
Values(p, n) == {p[i][2] : i \in Positions(p, n)}
\* Mapping p holds one entry n carrying the value of opt when opt is set,
\* and no entry n when opt is unset.
EntryIff(p, n, opt) ==
    IF IsSome(opt)
    THEN Cardinality(Positions(p, n)) = 1 /\ Values(p, n) = {Unwrap(opt)}
    ELSE Positions(p, n) = {}

\* The most recent event is the dispatcher's read `name`.
JustRead(name) == ev.kind = "read" /\ ev.name = name
\* The most recent event is the call with_<m>.
JustCalled(m) == ev.kind = "with" /\ ev.name = m

\* ================================================================== C1
\* C1: on ReplaceDocument and UpdateDocument, parameters() holds the entry
\* of a boolean modifier exactly when that modifier's field is set, with
\* the set value (false is an entry, unset is none), and nothing else;
\* UpdateDocument::new(id, patch).with_keep_none(false).with_return_new(true)
\* yields exactly keepNull=false and returnNew=true.
C1_KeepNoneReturnNewChain ==
    /\ d.type = "UpdateDocument"
    /\ ncalls = 2
    /\ last = [m \in ModifierNames |->
                 CASE m = "keep_none" -> Some(Some(FALSE))
                   [] m = "return_new" -> Some(Some(TRUE))
                   [] OTHER -> None]

\* C1: parameters() of ReplaceDocument / UpdateDocument holds exactly the
\* entries of the boolean modifiers that are set, each with its set value.
C1_BooleanParameters ==
    d.type \in {"ReplaceDocument", "UpdateDocument"} =>
        LET p == Prepare_parameters(d) IN
        /\ \A m \in BoolModifiers \cap ModifiersOf(d.type) :
              EntryIff(p, ParamOf(m), Getter(d, m))
        /\ Names(p) \subseteq {ParamOf(m) : m \in BoolModifiers \cap ModifiersOf(d.type)}
        /\ C1_KeepNoneReturnNewChain =>
              p = << <<"keepNull", FALSE>>, <<"returnNew", TRUE>> >>

C1_Witness ==
    /\ C1_KeepNoneReturnNewChain
    /\ JustRead("parameters")
    /\ ev.val = << <<"keepNull", FALSE>>, <<"returnNew", TRUE>> >>

\* ================================================================== C2
\* C2: parameters() of InsertDocument and InsertDocuments always holds
\* returnNew=false, that of InsertDocumentReturnNew and
\* InsertDocumentsReturnNew always returnNew=true, whatever
\* with_force_wait_for_sync calls were made; the only other entry is
\* waitForSync, and no other modifier was ever callable.
C2_ReturnNewFixed ==
    d.type \in InsertTypes =>
        LET p == Prepare_parameters(d) IN
        /\ EntryIff(p, "returnNew",
                    Some(d.type \in {"InsertDocumentReturnNew", "InsertDocumentsReturnNew"}))
        /\ EntryIff(p, "waitForSync", Getter(d, "force_wait_for_sync"))
        /\ Names(p) \subseteq {"returnNew", "waitForSync"}
        /\ \A m \in ModifierNames \ {"force_wait_for_sync"} : last[m] = None

C2_Witness ==
    /\ d.type = "InsertDocumentsReturnNew"
    /\ last["force_wait_for_sync"] = Some(Some(FALSE))
    /\ ncalls >= 2
    /\ JustRead("parameters")
    /\ ev.val = << <<"returnNew", TRUE>>, <<"waitForSync", FALSE>> >>

\* ================================================================== C3
\* C3: every getter returns None on a fresh descriptor and, after any
\* sequence of with_* calls, the argument of the most recent call of its
\* modifier (a plain value v as Some(v), a later None as unset); a with_*
\* call that repeats the call just before it leaves the descriptor as it was.
C3_GetterIsLastArgument ==
    \A m \in ModifiersOf(d.type) :
        Getter(d, m) = (IF last[m] = None THEN None ELSE Unwrap(last[m]))

C3_RepeatedCallChangesNothing ==
    (ncalls' = ncalls + 1 /\ ev'.rep) => d' = d

\* C3: always, each getter returns the argument of the most recent call of
\* its modifier (None when fresh), and a repeated identical call is a no-op.
C3_LastCallWins ==
    [](C3_GetterIsLastArgument) /\ [][C3_RepeatedCallChangesNothing]_vars

\* with_if_match called three times on a GetDocument, last with "rev1",
\* the call before it with another argument.
C3_Witness ==
    /\ d.type = "GetDocument"
    /\ ncalls = 3
    /\ last["if_non_match"] = None
    /\ JustCalled("if_match") /\ ev.val = Some("rev1") /\ ~ev.rep
    /\ GetDocument_if_match(d) = Some("rev1")

\* ================================================================== C4
\* C4: header() holds only If-Match and If-None-Match, each exactly when its
\* field is set and with that revision: both at once on GetDocument and
\* GetDocumentHeader, only If-Match on ReplaceDocument and UpdateDocument,
\* nothing on the four insert descriptors; parameters() holds boolean
\* entries under the boolean parameter names only, never a revision.
C4_HeaderEntries ==
    LET h == Prepare_header(d)
        p == Prepare_parameters(d)
    IN  /\ d.type \in {"GetDocument", "GetDocumentHeader"} =>
              /\ EntryIff(h, "If-Match", Getter(d, "if_match"))
              /\ EntryIff(h, "If-None-Match", Getter(d, "if_non_match"))
              /\ Names(h) \subseteq {"If-Match", "If-None-Match"}
        /\ d.type \in {"ReplaceDocument", "UpdateDocument"} =>
              /\ EntryIff(h, "If-Match", Getter(d, "if_match"))
              /\ Names(h) \subseteq {"If-Match"}
        /\ d.type \in InsertTypes => h = <<>>
        /\ Names(p) \subseteq BoolParamNames
        /\ \A i \in DOMAIN p : p[i][2] \in BOOLEAN

C4_Witness ==
    /\ d.type = "GetDocumentHeader"
    /\ JustRead("header")
    /\ ev.val = << <<"If-Match", "rev1">>, <<"If-None-Match", "rev2">> >>

\* ================================================================== C5
\* C5: a with_<m> call changes no field but m: the id or collection name,
\* the payload and every other modifier keep their values, and so do the
\* entries of parameters() and header() that belong to other modifiers.
C5_OnlyOneFieldReplaced ==
    (ncalls' = ncalls + 1) =>
        LET Other(e) == e[1] # ParamOf(ev'.name)
        IN  /\ DOMAIN d' = DOMAIN d
            /\ \A f \in DOMAIN d \ {ev'.name} : d'[f] = d[f]
            /\ SelectSeq(Prepare_parameters(d'), Other) = SelectSeq(Prepare_parameters(d), Other)
            /\ SelectSeq(Prepare_header(d'), Other) = SelectSeq(Prepare_header(d), Other)

\* C5: every with_* step replaces one field and leaves the rest, and the
\* entries of the other modifiers, as they were.
C5_FrameOfModifiers == [][C5_OnlyOneFieldReplaced]_vars

\* with_return_old was just called on a ReplaceDocument whose return_new
\* and if_match were set before.
C5_Witness ==
    /\ d.type = "ReplaceDocument"
    /\ ncalls = 3
    /\ JustCalled("return_old") /\ ev.val = Some(TRUE)
    /\ last["return_new"] = Some(Some(FALSE))
    /\ last["if_match"] = Some(Some("rev2"))
    /\ ReplaceDocument_return_new(d) = Some(FALSE)
    /\ ReplaceDocument_if_match(d) = Some("rev2")

\* ================================================================== C6
\* C6: path() is the document API prefix, "/" and the "collection/key" form
\* of the id given at construction (GetDocument, GetDocumentHeader,
\* ReplaceDocument, UpdateDocument) or the collection name given at
\* construction (the four insert descriptors), after any with_* calls:
\* "<prefix>/users" for collection "users", "<prefix>/users/42" for the id
\* ("users", "42").
C6_IdOf(c) ==
    IF c.type \in {"GetDocument", "GetDocumentHeader"} THEN c.id ELSE c.document_id

\* C6: path() is the prefix plus the id or collection name given at
\* construction, whatever with_* calls were made.
C6_PathFromConstruction ==
    LET path == Prepare_path(d) IN
    /\ ctor.type \in IdTypes =>
          /\ path = PATH_API_DOCUMENT \o "/" \o C6_IdOf(ctor).collection_name
                        \o "/" \o C6_IdOf(ctor).document_key
          /\ C6_IdOf(ctor) = DocumentId_new("users", "42") =>
                path = PATH_API_DOCUMENT \o "/users/42"
    /\ ctor.type \in InsertTypes =>
          /\ path = PATH_API_DOCUMENT \o "/" \o ctor.collection_name
          /\ ctor.collection_name = "users" => path = PATH_API_DOCUMENT \o "/users"

C6_Witness ==
    /\ ctor = [type |-> "ReplaceDocument", document_id |-> DocumentId_new("users", "42"),
               new_document |-> DocumentUpdate("patch1")]
    /\ ncalls = 2
    /\ last["if_match"] = Some(Some("rev1"))
    /\ JustRead("path")
    /\ ev.val = PATH_API_DOCUMENT \o "/users/42"

\* ================================================================== C7
\* C7: content() is None for GetDocument and GetDocumentHeader and, for the
\* write descriptors, the payload given at construction whatever with_*
\* calls were made: the one new document, the update payload, or the batch
\* in the order and number supplied (documents() and content() agree).
C7_ContentIsPayload ==
    LET content == Prepare_content(d) IN
    /\ ctor.type \in {"GetDocument", "GetDocumentHeader"} => content = None
    /\ ctor.type \in {"InsertDocument", "InsertDocumentReturnNew"} =>
          content = Some(ctor.document)
    /\ ctor.type = "InsertDocuments" =>
          /\ content = Some(ctor.documents)
          /\ InsertDocuments_documents(d) = ctor.documents
          /\ Len(InsertDocuments_documents(d)) = Len(ctor.documents)
    /\ ctor.type = "InsertDocumentsReturnNew" =>
          /\ content = Some(ctor.documents)
          /\ InsertDocumentsReturnNew_documents(d) = ctor.documents
          /\ Len(InsertDocumentsReturnNew_documents(d)) = Len(ctor.documents)
    /\ ctor.type = "ReplaceDocument" => content = Some(ctor.new_document)
    /\ ctor.type = "UpdateDocument" => content = Some(ctor.update)

\* A batch of two different documents, read back after a with_* call.
C7_Witness ==
    /\ ctor.type = "InsertDocuments"
    /\ ctor.documents = <<NewDocument(None, "doc1"), NewDocument(Some("k2"), "doc2")>>
    /\ ncalls >= 1
    /\ JustRead("content")
    /\ ev.val = Some(<<NewDocument(None, "doc1"), NewDocument(Some("k2"), "doc2")>>)
    /\ Len(InsertDocuments_documents(d)) = 2

\* ================================================================== C8
\* C8: operation() is fixed by the descriptor type under any with_* calls:
\* GetDocument read, GetDocumentHeader read-header, the four insert
\* descriptors create, ReplaceDocument replace, UpdateDocument modify.
C8_OperationOfType ==
    Prepare_operation(d) =
        CASE ctor.type = "GetDocument" -> "Read"
          [] ctor.type = "GetDocumentHeader" -> "ReadHeader"
          [] ctor.type \in InsertTypes -> "Create"
          [] ctor.type = "ReplaceDocument" -> "Replace"
          [] ctor.type = "UpdateDocument" -> "Modify"

C8_Witness ==
    /\ ctor.type = "GetDocumentHeader"
    /\ ncalls = 2
    /\ last["if_match"] # None /\ last["if_non_match"] # None
    /\ JustRead("operation")
    /\ ev.val = "ReadHeader"

\* ================================================================== C9
\* C9: every descriptor type declares the same response shape, no nested
\* result field and the status code under the fixed code field name,
\* whatever the modifier state.
C9_ResponseShape ==
    /\ Method_RETURN_TYPE(d).result_field = None
    /\ Method_RETURN_TYPE(d).code_field = Some(FIELD_CODE)
    /\ DOMAIN Method_RETURN_TYPE(d) = {"result_field", "code_field"}

C9_Witness ==
    /\ ctor.type = "InsertDocumentsReturnNew"
    /\ ncalls >= 1
    /\ JustRead("RETURN_TYPE")
    /\ ev.val = [result_field |-> None, code_field |-> Some("code")]

\* ================================================================== C10
\* C10: the dispatcher's reads operation(), path(), parameters(), header()
\* and content() change no field of the descriptor, and a read repeated
\* with no with_* call in between returns the value it returned before.
C10_ReadStep ==
    (ncalls' = ncalls) =>
        /\ d' = d
        /\ (ev.kind = "read" /\ ev'.kind = "read" /\ ev'.name = ev.name) =>
              ev'.val = ev.val

\* C10: every dispatcher read leaves the descriptor unchanged and a
\* repeated read returns the same value.
C10_ReadsArePure == [][C10_ReadStep]_vars

\* header() read twice in a row on an UpdateDocument carrying If-Match.
C10_Witness ==
    /\ d.type = "UpdateDocument"
    /\ JustRead("header") /\ ev.rep
    /\ ev.val = << <<"If-Match", "rev1">> >>
    /\ UpdateDocument_if_match(d) = Some("rev1")

\* ==================================================== cloned descriptors
\* Every descriptor derives Clone: clone() builds a new value field by field.
Clone(self) == [f \in DOMAIN self |-> self[f]]

\* self.with_<m>(a), resolved to the method of the descriptor's own type.
With(self, m, a) ==
    CASE self.type = "GetDocument" /\ m = "if_match" -> GetDocument_with_if_match(self, a)
      [] self.type = "GetDocument" /\ m = "if_non_match" -> GetDocument_with_if_non_match(self, a)
      [] self.type = "GetDocumentHeader" /\ m = "if_match" -> GetDocumentHeader_with_if_match(self, a)
      [] self.type = "GetDocumentHeader" /\ m = "if_non_match" -> GetDocumentHeader_with_if_non_match(self, a)
      [] self.type = "InsertDocument" /\ m = "force_wait_for_sync" -> InsertDocument_with_force_wait_for_sync(self, a)
      [] self.type = "InsertDocumentReturnNew" /\ m = "force_wait_for_sync" -> InsertDocumentReturnNew_with_force_wait_for_sync(self, a)
      [] self.type = "InsertDocuments" /\ m = "force_wait_for_sync" -> InsertDocuments_with_force_wait_for_sync(self, a)
      [] self.type = "InsertDocumentsReturnNew" /\ m = "force_wait_for_sync" -> InsertDocumentsReturnNew_with_force_wait_for_sync(self, a)
      [] self.type = "ReplaceDocument" /\ m = "force_wait_for_sync" -> ReplaceDocument_with_force_wait_for_sync(self, a)
      [] self.type = "ReplaceDocument" /\ m = "ignore_revisions" -> ReplaceDocument_with_ignore_revisions(self, a)
      [] self.type = "ReplaceDocument" /\ m = "if_match" -> ReplaceDocument_with_if_match(self, a)
      [] self.type = "ReplaceDocument" /\ m = "return_old" -> ReplaceDocument_with_return_old(self, a)
      [] self.type = "ReplaceDocument" /\ m = "return_new" -> ReplaceDocument_with_return_new(self, a)
      [] self.type = "UpdateDocument" /\ m = "force_wait_for_sync" -> UpdateDocument_with_force_wait_for_sync(self, a)
      [] self.type = "UpdateDocument" /\ m = "ignore_revisions" -> UpdateDocument_with_ignore_revisions(self, a)
      [] self.type = "UpdateDocument" /\ m = "if_match" -> UpdateDocument_with_if_match(self, a)
      [] self.type = "UpdateDocument" /\ m = "keep_none" -> UpdateDocument_with_keep_none(self, a)
      [] self.type = "UpdateDocument" /\ m = "merge_objects" -> UpdateDocument_with_merge_objects(self, a)
      [] self.type = "UpdateDocument" /\ m = "return_old" -> UpdateDocument_with_return_old(self, a)
      [] self.type = "UpdateDocument" /\ m = "return_new" -> UpdateDocument_with_return_new(self, a)

\* The arguments with_<m> accepts.
ArgsOf(m) == IF m \in {"if_match", "if_non_match"} THEN StringArgs ELSE BoolArgs

\* What a holder reads from its descriptor: every getter and the request
\* pieces of Prepare.
Pieces(self) ==
    [getters |-> [m \in ModifiersOf(self.type) |-> Getter(self, m)],
     operation |-> Prepare_operation(self),
     path |-> Prepare_path(self),
     parameters |-> Prepare_parameters(self),
     header |-> Prepare_header(self),
     content |-> Prepare_content(self)]

\* with_* calls the holders of SpecClone make between them.
MaxCloneCalls == MaxCalls - 1

\* The holders of a copy of the descriptor: "h1" owns the constructed value,
\* "h2" may receive a clone.  copies[h] is <<>> while h holds nothing, else
\* <<[desc, mine]>>: the descriptor h owns and, per modifier, the last
\* argument applied on the way to this copy (None when never called): the
\* calls made before the clone was taken and h's own calls since.
Holders == {"h1", "h2"}
Holding(h) == copies[h] # <<>>
Copy(h) == copies[h][1]

InitClone ==
    /\ Constructed
    /\ copies = [h \in Holders |->
                   IF h = "h1" THEN <<[desc |-> d, mine |-> last]>> ELSE <<>>]

\* let other = descriptor.clone();
Holder_clone ==
    \E src \in Holders, dst \in Holders :
        /\ Holding(src)
        /\ ~Holding(dst)
        /\ copies' = [copies EXCEPT
                        ![dst] = <<[desc |-> Clone(Copy(src).desc), mine |-> Copy(src).mine]>>]
        /\ ev' = [kind |-> "clone", name |-> dst, val |-> None, rep |-> FALSE, by |-> src]
        /\ UNCHANGED <<d, ctor, last, ncalls>>

\* Variant: the copies share one state, so a with_* call reaches all of them.
Holder_with_Shared ==
    \E h \in Holders :
        /\ Holding(h)
        /\ ncalls < MaxCloneCalls
        /\ \E m \in ModifiersOf(Copy(h).desc.type) : \E a \in ArgsOf(m) :
              /\ copies' = [k \in Holders |->
                              IF Holding(k)
                              THEN <<[desc |-> With(Copy(k).desc, m, a),
                                      mine |-> IF k = h
                                               THEN [Copy(k).mine EXCEPT ![m] = Some(ArgValue(a))]
                                               ELSE Copy(k).mine]>>
                              ELSE <<>>]
              /\ ev' = [kind |-> "with", name |-> m, val |-> ArgValue(a),
                        rep |-> FALSE, by |-> h]
        /\ ncalls' = ncalls + 1
        /\ UNCHANGED <<d, ctor, last>>

\* descriptor = descriptor.with_<m>(a): the holder's value is moved into the
\* call and the returned value is the one it holds afterwards.
Holder_with ==
    \E h \in Holders :
        /\ Holding(h)
        /\ ncalls < MaxCloneCalls
        /\ \E m \in ModifiersOf(Copy(h).desc.type) : \E a \in ArgsOf(m) :
              /\ copies' = [copies EXCEPT
                              ![h] = <<[desc |-> With(Copy(h).desc, m, a),
                                        mine |-> [Copy(h).mine EXCEPT ![m] = Some(ArgValue(a))]]>>]
              /\ ev' = [kind |-> "with", name |-> m, val |-> ArgValue(a),
                        rep |-> FALSE, by |-> h]
        /\ ncalls' = ncalls + 1
        /\ UNCHANGED <<d, ctor, last>>

\* A holder calls the getters and the Prepare methods of its descriptor
\* (all take &self).
Holder_read ==
    \E h \in Holders :
        /\ Holding(h)
        /\ ev' = [kind |-> "read", name |-> "pieces", val |-> Pieces(Copy(h).desc),
                  rep |-> FALSE, by |-> h]
        /\ UNCHANGED <<d, ctor, last, ncalls, copies>>

NextClone ==
    \/ Holder_clone
    \/ Holder_with
    \/ Holder_read

SpecClone == InitClone /\ [][NextClone]_vars

\* ================================================================== C11
\* C11: when a descriptor is cloned and the holders modify and read their
\* copies in any interleaving, what a holder reads (getters, parameters(),
\* header(), path(), content()) reflects the construction values and the
\* modifier calls applied to its own copy only; a with_* call of one holder
\* never changes the copy of another.
C11_Expected(c, m) == IF c.mine[m] = None THEN None ELSE Unwrap(c.mine[m])

C11_OwnStateOnly ==
    \A h \in Holders :
        Holding(h) =>
            LET c == Copy(h)
                t == c.desc.type
            IN  /\ t = ctor.type
                /\ \A m \in ModifiersOf(t) : Getter(c.desc, m) = C11_Expected(c, m)
                /\ \A m \in BoolModifiers \cap ModifiersOf(t) :
                      EntryIff(Prepare_parameters(c.desc), ParamOf(m), C11_Expected(c, m))
                /\ \A m \in {"if_match", "if_non_match"} \cap ModifiersOf(t) :
                      EntryIff(Prepare_header(c.desc), ParamOf(m), C11_Expected(c, m))
                /\ Prepare_path(c.desc) = Prepare_path(d)
                /\ Prepare_content(c.desc) = Prepare_content(d)

C11_OthersUntouched ==
    \A h \in Holders :
        (Holding(h) /\ ~(ncalls' = ncalls + 1 /\ ev'.by = h)) =>
            copies'[h] = copies[h]

\* C11: always, each holder reads its own copy's state, and every step
\* leaves the copies of the holders that did not call with_* as they were.
C11_NoInterference == [](C11_OwnStateOnly) /\ [][C11_OthersUntouched]_vars

\* h1 set keep_none, h2 set return_new on its clone, and h2 reads
\* parameters() holding returnNew alone while h1 still holds keep_none.
C11_Witness ==
    /\ ctor.type = "UpdateDocument"
    /\ Holding("h1") /\ Holding("h2")
    /\ Copy("h1").mine["keep_none"] = Some(Some(TRUE))
    /\ Copy("h1").mine["return_new"] = None
    /\ Copy("h2").mine["keep_none"] = None
    /\ Copy("h2").mine["return_new"] = Some(Some(FALSE))
    /\ ev.kind = "read" /\ ev.by = "h2"
    /\ ev.val.parameters = << <<"returnNew", FALSE>> >>
    /\ ev.val.getters["keep_none"] = None
    /\ UpdateDocument_keep_none(Copy("h1").desc) = Some(TRUE)
    /\ UpdateDocument_return_new(Copy("h1").desc) = None

\* ================================================================== C12
\* C12: modifiers on different fields commute: whatever the order of the
\* with_* calls, the descriptor is the one obtained by applying, to the
\* freshly constructed descriptor, each called modifier once with its last
\* argument in one fixed order; so two call sequences with the same last
\* argument per modifier give equal descriptors and equal parameters(),
\* header(), path(), operation() and content().
C12_FixedOrder ==
    <<"force_wait_for_sync", "ignore_revisions", "if_match", "if_non_match",
      "keep_none", "merge_objects", "return_old", "return_new">>

C12_Construct(c) ==
    CASE c.type = "GetDocument" -> GetDocument_new(c.id)
      [] c.type = "GetDocumentHeader" -> GetDocumentHeader_new(c.id)
      [] c.type = "InsertDocument" -> InsertDocument_new(c.collection_name, c.document)
      [] c.type = "InsertDocumentReturnNew" ->
            InsertDocumentReturnNew_new(c.collection_name, c.document)
      [] c.type = "InsertDocuments" -> InsertDocuments_new(c.collection_name, c.documents)
      [] c.type = "InsertDocumentsReturnNew" ->
            InsertDocumentsReturnNew_new(c.collection_name, c.documents)
      [] c.type = "ReplaceDocument" -> ReplaceDocument_new(c.document_id, c.new_document)
      [] c.type = "UpdateDocument" -> UpdateDocument_new(c.document_id, c.update)

RECURSIVE C12_Replay(_, _, _)
C12_Replay(self, lastArgs, i) ==
    IF i > Len(C12_FixedOrder)
    THEN self
    ELSE LET m == C12_FixedOrder[i]
         IN  C12_Replay(IF lastArgs[m] = None
                        THEN self
                        ELSE With(self, m, OptionArg(Unwrap(lastArgs[m]))),
                        lastArgs, i + 1)

\* C12: the descriptor and the request pieces after any sequence of with_*
\* calls equal those of the fixed-order sequence with the same last arguments.
C12_ModifiersCommute ==
    LET c == C12_Replay(C12_Construct(ctor), last, 1) IN
    /\ d = c
    /\ Prepare_parameters(d) = Prepare_parameters(c)
    /\ Prepare_header(d) = Prepare_header(c)
    /\ Prepare_path(d) = Prepare_path(c)
    /\ Prepare_operation(d) = Prepare_operation(c)
    /\ Prepare_content(d) = Prepare_content(c)

\* with_keep_none called last, after with_return_new, which the fixed order
\* applies after it, and after with_if_match.
C12_Witness ==
    /\ d.type = "UpdateDocument"
    /\ ncalls = 3
    /\ JustCalled("keep_none")
    /\ last = [m \in ModifierNames |->
                 CASE m = "keep_none" -> Some(Some(FALSE))
                   [] m = "if_match" -> Some(Some("rev1"))
                   [] m = "return_new" -> Some(Some(TRUE))
                   [] OTHER -> None]
    /\ Prepare_parameters(d) = << <<"keepNull", FALSE>>, <<"returnNew", TRUE>> >>
    /\ Prepare_header(d) = << <<"If-Match", "rev1">> >>

====
